---- MODULE Spec2Model ----
(***************************************************************************)
(* Model of mail_fetcher.py: the poll orchestrator (main_loop), the        *)
(* account session (process_account), the dedup state (processed_ids and   *)
(* the state file written by save_state / read by load_state) and the      *)
(* upload client (upload_report_to_api).                                   *)
(*                                                                         *)
(* One TLA+ step is one blocking call of the code (an IMAP command, the    *)
(* handling of one attachment, one file operation) together with the       *)
(* handler code that follows it up to the next blocking call.              *)
(***************************************************************************)
EXTENDS Integers, Sequences, FiniteSets, TLC

(***************************************************************************)
(* Program constants and bounds                                            *)
(***************************************************************************)
BATCH_SIZE == 20            \* mail_fetcher.py:27
PoolLimit == 5              \* mail_fetcher.py:398, min(5, len(accounts))
max_emails == 21            \* cfg "max_emails_per_run" of the modelled run
MaxCycles == 2              \* poll cycles explored (over all lifetimes)
MaxRestarts == 1            \* process restarts explored

Accounts == {"a1", "a2"}    \* cfg "accounts"

\* cfg "accounts" of a run with more accounts than pool workers; their
\* inboxes are empty
PoolAccounts == {"p1", "p2", "p3", "p4", "p5", "p6"}

(***************************************************************************)
(* The mailboxes.  a1 holds BATCH_SIZE + 2 messages, so that its session   *)
(* has two batches; a2 holds one.  Most of a1's messages were resolved by  *)
(* earlier runs (their ids are in the state file at start) and carry no    *)
(* Message-ID header; the others are new.  A message is a PDF report       *)
(* ("pdf"), a mail carrying a report link ("link") or a mail with neither  *)
(* ("none").  The same report ("mX") was delivered to both mailboxes.      *)
(***************************************************************************)
InboxSize ==
    [a \in Accounts \cup PoolAccounts |->
        CASE a = "a1" -> BATCH_SIZE + 2
          [] a = "a2" -> 1
          [] OTHER    -> 0]

UIDs(a) == 1..InboxSize[a]

\* the new messages of a1: UID 4, followed in the first batch by UID 3, and
\* UID 2 in the second batch
IsNew(a, u) == IF a = "a1" THEN u \in {2, 4} ELSE TRUE

\* value of the Message-ID header, "" when the header is absent
Header(a, u) ==
    IF a = "a1"
    THEN CASE u = 4 -> "mX"
           [] u = 2 -> "m2"
           [] OTHER -> ""
    ELSE "mX"

Kind(a, u) ==
    IF a = "a1"
    THEN CASE u = 2 -> "none"
           [] OTHER -> "pdf"
    ELSE "link"

\* number of PDF attachments with a non-empty payload
NumPdf(a, u) ==
    IF Kind(a, u) # "pdf" THEN 0
    ELSE IF a = "a1" /\ u = 4 THEN 2 ELSE 1

\* message_id = msg.get("Message-ID") or str(uid_from_header)
message_id(a, u) == IF Header(a, u) # "" THEN Header(a, u) ELSE ToString(u)

OldUids(a) == {u \in UIDs(a) : ~IsNew(a, u)}

\* the ids resolved by earlier runs
OldIds == {message_id("a1", u) : u \in OldUids("a1")}

(***************************************************************************)
(* Pure helpers                                                            *)
(***************************************************************************)
Min(x, y) == IF x <= y THEN x ELSE y

\* sorted([...], reverse=True): position k holds the element that has
\* exactly k - 1 larger elements
SortedDesc(S) ==
    [k \in 1..Cardinality(S) |->
        CHOOSE x \in S : Cardinality({y \in S : y > x}) = k - 1]

\* uids[:n]
Take(s, n) == SubSeq(s, 1, Min(n, Len(s)))

\* variant: the slice starts one element early
batch_uids_Overlap(latest, i) ==
    SubSeq(latest, IF i = 0 THEN 1 ELSE i, Min(i + BATCH_SIZE, Len(latest)))

\* latest_uids[i:i + BATCH_SIZE], i counted from 0
batch_uids(latest, i) == SubSeq(latest, i + 1, Min(i + BATCH_SIZE, Len(latest)))

\* i // BATCH_SIZE + 1
BatchNo(i) == (i \div BATCH_SIZE) + 1

(***************************************************************************)
(* State file                                                              *)
(***************************************************************************)
FileOk(ids) == [kind |-> "ok", ids |-> ids]
FileTorn == [kind |-> "torn", ids |-> {}]

\* load_state: "raise" when json.load cannot parse the file
load_state(f) ==
    CASE f.kind = "absent" -> [ok |-> TRUE, ids |-> {}]
      [] f.kind = "ok"     -> [ok |-> TRUE, ids |-> f.ids]
      [] OTHER             -> [ok |-> FALSE, ids |-> {}]

(***************************************************************************)
(* Outcomes of the external calls and the handlers around them             *)
(***************************************************************************)
\* imap.uid('fetch', ...): "OK" with data, a non-OK / empty answer, one of
\* imaplib.IMAP4.abort / ssl.SSLEOFError / imaplib.IMAP4.error ("conn"), or
\* any other exception such as OSError or socket.timeout ("other")
FetchResults == {"OK", "NO", "conn", "other"}

\* variant: the connection error skips the batch instead of ending the loop
BatchFetchHandler_Continue(r) ==
    CASE r = "conn"  -> "continue"
      [] r = "other" -> "propagate"
      [] r = "NO"    -> "continue"
      [] OTHER       -> "process"

\* the try/except around the batch fetch and the test that follows it
BatchFetchHandler(r) ==
    CASE r = "conn"  -> "break"
      [] r = "other" -> "propagate"
      [] r = "NO"    -> "continue"
      [] OTHER       -> "process"

\* variant: the dedup test is missing
DedupGate_Missing(mid, ids) == FALSE

\* if message_id in processed_ids: continue
DedupGate(mid, ids) == mid \in ids

\* variant: the link branch runs whether or not a link was found
Route_NoLinkTest(kind) == IF kind = "pdf" THEN "attach" ELSE "link"

\* which section handles a message that passed the gate: the attachment
\* loop, the link branch, or directly section 3 (mark seen & processed)
Route(kind) ==
    CASE kind = "pdf"  -> "attach"
      [] kind = "link" -> "link"
      [] OTHER         -> "store"

\* requests.post: status 200, another status, or an exception
PostResults == {"200", "500", "exception"}

\* upload_report_to_api: one POST, no retry; status 200 is logged as a
\* success, any other status and any exception as a failure; nothing is
\* returned or raised, so the caller goes on in the same way in all cases
upload_report_to_api(r) == IF r = "200" THEN "upload_ok" ELSE "upload_fail"

\* one PDF part: writing the temp file raises ("write_raise", leaves the
\* message's try block), extract_patient_name raises ("extract_raise",
\* caught by ex_proc), or the upload is attempted
AttachResults == {"write_raise", "extract_raise"} \cup PostResults

\* the link branch: fetch_thyrocare_pdf_playwright raises before its
\* tempfile.mkstemp ("fetch_raise": launch, goto, click, download wait) or
\* after it ("save_raise": download.save_as, context.close, browser.close),
\* extraction raises, or the upload is attempted
LinkResults == {"fetch_raise", "save_raise", "extract_raise"} \cup PostResults

\* what is left of the temp file of one PDF part: NamedTemporaryFile(...,
\* delete=False) creates it and tf.write runs before the try whose finally
\* clause removes it
AttachTemp(r) == IF r = "write_raise" THEN "left" ELSE "removed"

\* what is left of the temp file of the link branch: the finally clause
\* removes the path that fetch_thyrocare_pdf_playwright returned; when that
\* function raises, the caller's temp_path is still None
LinkTemp(r) ==
    CASE r = "fetch_raise" -> "none"
      [] r = "save_raise"  -> "left"
      [] OTHER             -> "removed"

\* the try / except ex_proc / finally around one PDF part: only an exception
\* raised before the try (writing the temp file) leaves the message's block
AttachHandler(r) == IF r = "write_raise" THEN "item_error" ELSE "next_part"

\* imaplib.IMAP4_SSL(...) raises (no connection), imap.login(...) raises on
\* the connection just opened, or both succeed
LoginResults == {"ok", "connect_raise", "login_raise"}

\* variant: an exception of imap.logout() leaves the finally clause
LogoutHandler_Propagate(ok, exc) == IF exc \/ ~ok THEN "raised" ELSE "returned"

\* the finally clause: imap.logout() inside try/except Exception; what ends
\* the call by raising is only an exception pending from the try body
LogoutHandler(ok, exc) == IF exc THEN "raised" ELSE "returned"

\* imap.uid('store', ...): an answer (its value is ignored), a connection
\* error, or another exception
StoreResults == {"OK", "conn", "other"}

\* variant: the store call has a handler of its own that swallows a
\* connection error, and the statement after it runs
StoreHandler_SwallowConn(r) ==
    CASE r = "other" -> "item_error"
      [] OTHER       -> "add"

\* variant: the generic except clause ends the batch loop as well
StoreHandler_AbortOnAny(r) ==
    CASE r = "conn"  -> "break"
      [] r = "other" -> "break"
      [] OTHER       -> "add"

\* the except clauses that end the per-message try block
StoreHandler(r) ==
    CASE r = "conn"  -> "break"
      [] r = "other" -> "item_error"
      [] OTHER       -> "add"

\* variant: future.result() without the try/except
FutureResult_Uncaught(pc) == IF pc = "raised" THEN "propagate" ELSE "ok"

\* future.result() inside try/except Exception in main_loop
FutureResult(pc) == IF pc = "raised" THEN "logged" ELSE "ok"

(***************************************************************************)
(* State                                                                   *)
(***************************************************************************)
VARIABLES
    mpc,            \* position of main_loop
    processed_ids,  \* the in-memory set shared by all sessions
    state_file,     \* content of the state file on disk
    cycle,          \* number of the current poll cycle
    interrupted,    \* KeyboardInterrupt has been raised in main_loop
    restarts,       \* number of process restarts so far
    sess,           \* per account: the locals of process_account
    hist,           \* per account: what the session of this cycle has done
    acceptedPrev,   \* <<account, uid>>: upload accepted in an earlier cycle
                    \* of this process lifetime
    recordedPrev,   \* processed_ids at the moment the previous process stopped
    durable,        \* ids written by the last completed save_state
    ex              \* a call of the name extractor looked at on its own:
                    \* its arguments, its position and its results

vars == <<mpc, processed_ids, state_file, cycle, interrupted, restarts, sess,
          hist, acceptedPrev, recordedPrev, durable, ex>>

\* the state of the mail fetcher
fetcherVars == <<mpc, processed_ids, state_file, cycle, interrupted, restarts,
                 sess, hist, acceptedPrev, recordedPrev, durable>>

\* no extractor call is being looked at
ExIdle == [pc |-> "idle"]

SessInit ==
    [pc |-> "idle", latest_uids |-> <<>>, i |-> 0, messages_in_batch |-> <<>>,
     j |-> 0, part |-> 0, exc |-> FALSE]

\* ops: <<uid, operation>> pairs done by the session; gateHit: UIDs whose
\* id was in processed_ids when the dedup test ran; passed: UIDs that went
\* past the dedup test; abortedAt: number of the first batch whose fetch
\* raised (0: none); temp: <<uid, part>> of the temp files the session has
\* created and that are still on disk after the code handling them has run
\* connected: IMAP4_SSL(...) returned; logged_in: imap.login returned;
\* logouts: number of calls of imap.logout(); batches: <<batch number,
\* UIDs>> of the batches whose fetch was answered with data; skipped:
\* numbers of the batches whose fetch was answered non-OK or empty;
\* started: number of times a pool worker has started the task
HistInit ==
    [ops |-> {}, gateHit |-> {}, passed |-> {}, abortedAt |-> 0, temp |-> {},
     connected |-> FALSE, logged_in |-> FALSE, logouts |-> 0,
     batches |-> {}, skipped |-> {}, started |-> 0]

Finished == {"returned", "raised"}
MsgPcs == {"gate", "attach", "link", "store", "add"}
Active == {"login", "select", "search", "fetch", "logout"} \cup MsgPcs

\* the UID the session is working on, 0 when it is between messages
Cur(a) == IF sess[a].pc \in MsgPcs THEN sess[a].messages_in_batch[sess[a].j] ELSE 0

\* accounts = cfg.get("accounts", []): the accounts of the run
accounts == DOMAIN sess

\* variant: one worker per account, whatever their number
max_threads_Unbounded ==
    LET m == Cardinality(accounts) IN IF m = 0 THEN 1 ELSE m

\* min(5, len(accounts)) or 1
max_threads ==
    LET m == Min(PoolLimit, Cardinality(accounts)) IN IF m = 0 THEN 1 ELSE m

Init ==
    /\ mpc = "load"
    /\ processed_ids = {}
    /\ state_file = FileOk(OldIds)
    /\ cycle = 1
    /\ interrupted = FALSE
    /\ restarts = 0
    /\ sess = [a \in Accounts |-> SessInit]
    /\ hist = [a \in Accounts |-> HistInit]
    /\ acceptedPrev = {}
    /\ recordedPrev = {}
    /\ durable = OldIds
    /\ ex = ExIdle

(***************************************************************************)
(* main_loop                                                               *)
(***************************************************************************)
\* processed_ids = load_state(state_file)
Load ==
    /\ mpc = "load"
    /\ LET r == load_state(state_file) IN
         IF r.ok
         THEN /\ processed_ids' = r.ids
              /\ mpc' = "submit"
         ELSE /\ processed_ids' = {}
              /\ mpc' = "load_failed"
    /\ UNCHANGED <<ex, state_file, cycle, interrupted, restarts, sess, hist,
                   acceptedPrev, recordedPrev, durable>>

\* executor.submit(process_account, ...) for every account
Submit ==
    /\ mpc = "submit"
    /\ mpc' = "wait"
    /\ sess' = [a \in accounts |-> [SessInit EXCEPT !.pc = "queued"]]
    /\ hist' = [a \in accounts |-> HistInit]
    /\ acceptedPrev' = acceptedPrev \cup
         UNION {{<<a, u>> : u \in {v \in UIDs(a) : <<v, "upload_ok">> \in hist[a].ops}} :
                a \in accounts}
    /\ UNCHANGED <<ex, processed_ids, state_file, cycle, interrupted, restarts,
                   recordedPrev, durable>>

\* the exit of the "with ThreadPoolExecutor" block, shutdown(wait=True):
\* it returns when every submitted task, queued or running, has ended
ExecutorExit_NoWait(pcs) == TRUE
ExecutorExit(pcs) == \A p \in pcs : p \in Finished

\* as_completed / future.result() for every future, then the exit of the
\* "with ThreadPoolExecutor" block (shutdown(wait=True)); after an interrupt
\* only the exit of the with block, which still waits for every session
Join ==
    /\ mpc = "wait"
    /\ ExecutorExit({sess[a].pc : a \in accounts})
    /\ mpc' = IF ~interrupted /\ \E a \in accounts : FutureResult(sess[a].pc) = "propagate"
              THEN "failed"
              ELSE "save_open"
    /\ UNCHANGED <<ex, processed_ids, state_file, cycle, interrupted, restarts,
                   sess, hist, acceptedPrev, recordedPrev, durable>>

\* save_state, first half: open(state_file, "w") truncates the file
SaveOpen ==
    /\ mpc = "save_open"
    /\ state_file' = FileTorn
    /\ mpc' = "save_write"
    /\ UNCHANGED <<ex, processed_ids, cycle, interrupted, restarts, sess,
                   hist, acceptedPrev, recordedPrev, durable>>

\* save_state, second half: json.dump and close
SaveWrite ==
    /\ mpc = "save_write"
    /\ state_file' = FileOk(processed_ids)
    /\ durable' = processed_ids
    /\ mpc' = IF interrupted THEN "exited" ELSE "sleep"
    /\ recordedPrev' = IF interrupted THEN processed_ids ELSE recordedPrev
    /\ UNCHANGED <<ex, processed_ids, cycle, interrupted, restarts, sess,
                   hist, acceptedPrev>>

\* time.sleep(interval), then the next iteration of "while True"
Sleep ==
    /\ mpc = "sleep"
    /\ cycle < MaxCycles
    /\ cycle' = cycle + 1
    /\ mpc' = "submit"
    /\ UNCHANGED <<ex, processed_ids, state_file, interrupted, restarts, sess,
                   hist, acceptedPrev, recordedPrev, durable>>

\* KeyboardInterrupt raised in the main thread; inside the with block the
\* executor's exit runs first, then the except clause calls save_state
Interrupt ==
    /\ ~interrupted
    /\ mpc \in {"wait", "save_open", "save_write", "sleep"}
    /\ interrupted' = TRUE
    /\ mpc' = IF mpc = "wait" THEN "wait" ELSE "save_open"
    /\ UNCHANGED <<ex, processed_ids, state_file, cycle, restarts, sess,
                   hist, acceptedPrev, recordedPrev, durable>>

\* a second KeyboardInterrupt, raised while the executor's exit
\* (shutdown(wait=True)) joins the worker threads after the first one: it
\* leaves the with block at once and the except clause calls save_state,
\* whatever the sessions are doing.  Like Crash it is looked at where a
\* restart can still follow.
InterruptAgain ==
    /\ interrupted
    /\ mpc = "wait"
    /\ restarts < MaxRestarts
    /\ cycle < MaxCycles
    /\ mpc' = "save_open"
    /\ UNCHANGED <<ex, processed_ids, state_file, cycle, interrupted, restarts,
                   sess, hist, acceptedPrev, recordedPrev, durable>>

\* the process is killed (SIGKILL, power loss): memory is lost, the file and
\* the server keep what they hold
Crash ==
    /\ mpc \in {"wait", "save_open", "save_write", "sleep"}
    /\ restarts < MaxRestarts
    /\ cycle < MaxCycles
    /\ mpc' = "crashed"
    /\ recordedPrev' = processed_ids
    /\ processed_ids' = {}
    /\ sess' = [a \in accounts |-> SessInit]
    /\ hist' = [a \in accounts |-> HistInit]
    /\ interrupted' = FALSE
    /\ UNCHANGED <<ex, state_file, cycle, restarts, acceptedPrev, durable>>

\* the process is started again
Restart ==
    /\ mpc \in {"crashed", "exited"}
    /\ mpc = "exited" => \A a \in accounts : sess[a].pc \in Finished
    /\ restarts < MaxRestarts
    /\ cycle < MaxCycles
    /\ restarts' = restarts + 1
    /\ cycle' = cycle + 1
    /\ mpc' = "load"
    /\ processed_ids' = {}
    /\ interrupted' = FALSE
    /\ acceptedPrev' = {}
    /\ sess' = [a \in accounts |-> SessInit]
    /\ hist' = [a \in accounts |-> HistInit]
    /\ recordedPrev' = IF mpc = "exited" THEN processed_ids ELSE recordedPrev
    /\ UNCHANGED <<ex, state_file, durable>>

(***************************************************************************)
(* process_account                                                         *)
(***************************************************************************)
\* the worker threads of the pool run while main_loop is inside the with
\* block; when InterruptAgain has cut the executor's exit short they
\* keep running during save_state and after main_loop has returned, until
\* the interpreter has joined them at its exit
WorkersRun == mpc \in {"wait", "save_open", "save_write", "exited"}

AddOps(a, new) == [hist EXCEPT ![a].ops = @ \cup new]

\* the locals after the current message: the next message of the batch, or
\* (after time.sleep(1)) the next batch, or the end of the loop
Advance(s) ==
    IF s.j < Len(s.messages_in_batch)
    THEN [s EXCEPT !.pc = "gate", !.j = s.j + 1, !.part = 0]
    ELSE IF s.i + BATCH_SIZE < Len(s.latest_uids)
         THEN [s EXCEPT !.pc = "fetch", !.i = s.i + BATCH_SIZE,
                        !.messages_in_batch = <<>>, !.j = 0, !.part = 0]
         ELSE [s EXCEPT !.pc = "logout", !.i = 0,
                        !.messages_in_batch = <<>>, !.j = 0, !.part = 0]

\* "break" out of the batch loop, or an exception leaving the outer try:
\* in both cases the finally clause (logout) is next
ToLogout(s, raising) ==
    [s EXCEPT !.pc = "logout", !.exc = raising, !.i = 0,
              !.messages_in_batch = <<>>, !.j = 0, !.part = 0]

\* a pool worker picks the task up
Start(a) ==
    /\ WorkersRun
    /\ sess[a].pc = "queued"
    /\ Cardinality({b \in accounts : sess[b].pc \in Active}) < max_threads
    /\ sess' = [sess EXCEPT ![a].pc = "login"]
    /\ hist' = [hist EXCEPT ![a].started = @ + 1]
    /\ UNCHANGED <<ex, mpc, processed_ids, state_file, cycle, interrupted, restarts,
                   acceptedPrev, recordedPrev, durable>>

\* imaplib.IMAP4_SSL(...) and imap.login(...) inside try/except Exception
Login(a) ==
    /\ WorkersRun
    /\ sess[a].pc = "login"
    /\ \E r \in LoginResults :
         /\ sess' = [sess EXCEPT ![a].pc = IF r = "ok" THEN "select" ELSE "returned"]
         /\ hist' = [hist EXCEPT ![a].connected = (r # "connect_raise"),
                                 ![a].logged_in = (r = "ok")]
    /\ UNCHANGED <<ex, mpc, processed_ids, state_file, cycle, interrupted, restarts,
                   acceptedPrev, recordedPrev, durable>>

\* imap.select("INBOX"): the outer try has a finally clause and no except
Select(a) ==
    /\ WorkersRun
    /\ sess[a].pc = "select"
    /\ \E ok \in BOOLEAN :
         sess' = [sess EXCEPT ![a] = IF ok THEN [@ EXCEPT !.pc = "search"]
                                     ELSE ToLogout(@, TRUE)]
    /\ UNCHANGED <<ex, mpc, processed_ids, state_file, cycle, interrupted, restarts,
                   hist, acceptedPrev, recordedPrev, durable>>

\* imap.uid('search', None, "ALL"), the sort and the cut to max_emails
Search(a) ==
    /\ WorkersRun
    /\ sess[a].pc = "search"
    /\ \E r \in {"OK", "NO", "raise"} :
         sess' = [sess EXCEPT ![a] =
            CASE r = "raise" -> ToLogout(@, TRUE)
              [] r = "NO"    -> ToLogout(@, FALSE)
              [] OTHER       ->
                   LET latest == Take(SortedDesc(UIDs(a)), max_emails) IN
                     IF latest = <<>> THEN ToLogout(@, FALSE)
                     ELSE [@ EXCEPT !.pc = "fetch", !.latest_uids = latest, !.i = 0]]
    /\ UNCHANGED <<ex, mpc, processed_ids, state_file, cycle, interrupted, restarts,
                   hist, acceptedPrev, recordedPrev, durable>>

\* imap.uid('fetch', uid_str, '(RFC822)') for one batch
Fetch(a) ==
    /\ WorkersRun
    /\ sess[a].pc = "fetch"
    /\ \E r \in FetchResults :
         LET s == sess[a]
             b == batch_uids(s.latest_uids, s.i)
             h == BatchFetchHandler(r)
             failedAt == IF r \in {"conn", "other"} /\ hist[a].abortedAt = 0
                         THEN BatchNo(s.i) ELSE hist[a].abortedAt
             fetched == IF h = "process"
                        THEN {<<b[k], "fetch">> : k \in 1..Len(b)} ELSE {}
         IN /\ hist' = [hist EXCEPT
                 ![a].abortedAt = failedAt,
                 ![a].ops = @ \cup fetched,
                 ![a].batches = IF h = "process"
                                THEN @ \cup {<<BatchNo(s.i), b>>} ELSE @,
                 ![a].skipped = IF r = "NO"
                                THEN @ \cup {BatchNo(s.i)} ELSE @]
            /\ sess' = [sess EXCEPT ![a] =
                 CASE h = "process" ->
                        [s EXCEPT !.pc = "gate", !.messages_in_batch = b,
                                  !.j = 1, !.part = 0]
                   [] h = "continue" ->
                        IF s.i + BATCH_SIZE < Len(s.latest_uids)
                        THEN [s EXCEPT !.i = s.i + BATCH_SIZE]
                        ELSE ToLogout(s, FALSE)
                   [] OTHER -> ToLogout(s, h = "propagate")]
    /\ UNCHANGED <<ex, mpc, processed_ids, state_file, cycle, interrupted, restarts,
                   acceptedPrev, recordedPrev, durable>>

\* the head of the per-message block: message_id and the dedup test
Gate(a) ==
    /\ WorkersRun
    /\ sess[a].pc = "gate"
    /\ LET s == sess[a]
           u == Cur(a)
           mid == message_id(a, u)
           hit == IF mid \in processed_ids THEN {u} ELSE {}
       IN IF DedupGate(mid, processed_ids)
          THEN /\ sess' = [sess EXCEPT ![a] = Advance(s)]
               /\ hist' = [hist EXCEPT ![a].gateHit = @ \cup hit]
          ELSE /\ sess' = [sess EXCEPT ![a] =
                             [s EXCEPT !.pc = Route(Kind(a, u)), !.part = 1]]
               /\ hist' = [hist EXCEPT ![a].gateHit = @ \cup hit,
                                       ![a].passed = @ \cup {u}]
    /\ UNCHANGED <<ex, mpc, processed_ids, state_file, cycle, interrupted, restarts,
                   acceptedPrev, recordedPrev, durable>>

\* one PDF part of the attachment loop: temp file, extract_patient_name,
\* upload_report_to_api, removal of the temp file
Attach(a) ==
    /\ WorkersRun
    /\ sess[a].pc = "attach"
    /\ \E r \in AttachResults :
         LET s == sess[a]
             u == Cur(a)
             done == CASE r = "write_raise"   -> {<<u, "item_error">>}
                       [] r = "extract_raise" -> {<<u, "extract">>}
                       [] OTHER               ->
                            {<<u, "extract">>, <<u, upload_report_to_api(r)>>}
             left == IF AttachTemp(r) = "left" THEN {<<u, s.part>>} ELSE {}
         IN /\ hist' = [hist EXCEPT ![a].ops = @ \cup done,
                                    ![a].temp = @ \cup left]
            /\ sess' = [sess EXCEPT ![a] =
                 IF AttachHandler(r) = "item_error" THEN Advance(s)
                 ELSE IF s.part < NumPdf(a, u)
                      THEN [s EXCEPT !.part = s.part + 1]
                      ELSE [s EXCEPT !.pc = "store"]]
    /\ UNCHANGED <<ex, mpc, processed_ids, state_file, cycle, interrupted, restarts,
                   acceptedPrev, recordedPrev, durable>>

\* the link branch: fetch_thyrocare_pdf_playwright, extract_patient_name,
\* upload_report_to_api, all inside try / except Exception / finally
Link(a) ==
    /\ WorkersRun
    /\ sess[a].pc = "link"
    /\ \E r \in LinkResults :
         LET s == sess[a]
             u == Cur(a)
             done == CASE r \in {"fetch_raise", "save_raise"} ->
                            {<<u, "linkfetch">>}
                       [] r = "extract_raise" -> {<<u, "linkfetch">>, <<u, "extract">>}
                       [] OTHER ->
                            {<<u, "linkfetch">>, <<u, "extract">>,
                             <<u, upload_report_to_api(r)>>}
             left == IF LinkTemp(r) = "left" THEN {<<u, s.part>>} ELSE {}
         IN /\ hist' = [hist EXCEPT ![a].ops = @ \cup done,
                                    ![a].temp = @ \cup left]
            /\ sess' = [sess EXCEPT ![a].pc = "store"]
    /\ UNCHANGED <<ex, mpc, processed_ids, state_file, cycle, interrupted, restarts,
                   acceptedPrev, recordedPrev, durable>>

\* imap.uid('store', str(uid_from_header), '+FLAGS', '(\\Seen)')
Store(a) ==
    /\ WorkersRun
    /\ sess[a].pc = "store"
    /\ \E r \in StoreResults :
         LET s == sess[a]
             u == Cur(a)
             h == StoreHandler(r)
         IN /\ hist' = AddOps(a,
                 CASE r = "OK"   -> {<<u, "store">>}
                   [] r = "conn" -> {<<u, "store_error">>, <<u, "conn_error">>}
                   [] OTHER      -> {<<u, "store_error">>, <<u, "item_error">>})
            /\ sess' = [sess EXCEPT ![a] =
                 CASE h = "add"   -> [s EXCEPT !.pc = "add"]
                   [] h = "break" -> ToLogout(s, FALSE)
                   [] OTHER       -> Advance(s)]
    /\ UNCHANGED <<ex, mpc, processed_ids, state_file, cycle, interrupted, restarts,
                   acceptedPrev, recordedPrev, durable>>

\* processed_ids.add(message_id)
Add(a) ==
    /\ WorkersRun
    /\ sess[a].pc = "add"
    /\ LET u == Cur(a) IN
         /\ processed_ids' = processed_ids \cup {message_id(a, u)}
         /\ hist' = AddOps(a, {<<u, "record">>})
    /\ sess' = [sess EXCEPT ![a] = Advance(sess[a])]
    /\ UNCHANGED <<ex, mpc, state_file, cycle, interrupted, restarts,
                   acceptedPrev, recordedPrev, durable>>

\* the finally clause: imap.logout() inside try/except Exception, after
\* which a pending exception goes on to the caller
Logout(a) ==
    /\ WorkersRun
    /\ sess[a].pc = "logout"
    /\ \E ok \in BOOLEAN :
         sess' = [sess EXCEPT ![a].pc = LogoutHandler(ok, sess[a].exc)]
    /\ hist' = [hist EXCEPT ![a].logouts = @ + 1]
    /\ UNCHANGED <<ex, mpc, processed_ids, state_file, cycle, interrupted, restarts,
                   acceptedPrev, recordedPrev, durable>>

process_account(a) ==
    \/ Start(a) \/ Login(a) \/ Select(a) \/ Search(a) \/ Fetch(a) \/ Gate(a)
    \/ Attach(a) \/ Link(a) \/ Store(a) \/ Add(a) \/ Logout(a)

Next ==
    \/ Load \/ Submit \/ Join \/ SaveOpen \/ SaveWrite \/ Sleep
    \/ Interrupt \/ InterruptAgain \/ Crash \/ Restart
    \/ \E a \in Accounts : process_account(a)

Spec == Init /\ [][Next]_vars

(***************************************************************************)
(* Properties                                                              *)
(***************************************************************************)
UploadOps == {"upload_ok", "upload_fail"}
ProcessingOps == {"extract", "linkfetch", "upload_ok", "upload_fail", "store",
                  "store_error", "conn_error", "record", "item_error"}

Did(a, u, op) == <<u, op>> \in hist[a].ops

\* C1: within one process lifetime no message of an account has its report
\* accepted by the upload API in more than one processing of that message
\* (a processing of an earlier cycle and one of the current cycle).
C1_UploadedOncePerLifetime ==
    \A a \in Accounts : \A u \in UIDs(a) :
        Did(a, u, "upload_ok") => <<a, u>> \notin acceptedPrev

\* C2: a message whose id was in the processed set when the previous process
\* stopped (gracefully or by a crash) never passes the dedup gate after the
\* restart.
C2_SkippedAfterRestart ==
    \A a \in Accounts : \A u \in hist[a].passed :
        message_id(a, u) \notin recordedPrev

\* C3: a message whose id is in processed_ids when its dedup test runs is a
\* no-op for the session: no extraction, no link fetch, no upload, no Seen
\* store, no error handling, and the session does not add its id to the set.
C3_GateIsNoOp ==
    \A a \in Accounts :
        /\ hist[a].gateHit \cap hist[a].passed = {}
        /\ \A o \in hist[a].ops :
              o[1] \in hist[a].gateHit => o[2] \notin ProcessingOps

\* C3 witness: a new message recorded in an earlier cycle was fetched again
\* and met the gate, and the session has finished.
C3_Witness ==
    \E a \in Accounts : \E u \in hist[a].gateHit :
        /\ IsNew(a, u)
        /\ cycle > 1
        /\ Did(a, u, "fetch")
        /\ sess[a].pc = "returned"

\* the UIDs of batch k and of all later batches
FromBatch(a, k) ==
    {sess[a].latest_uids[n] : n \in ((k - 1) * BATCH_SIZE + 1)..Len(sess[a].latest_uids)}

\* C4: when the fetch of batch k raises, the session stops: no message of
\* batch k or of a later batch is fetched, processed, flagged or recorded by
\* it in this cycle, and what it recorded before stays in processed_ids.
C4_FetchErrorStopsSession ==
    \A a \in Accounts :
        LET k == hist[a].abortedAt IN
        k > 0 =>
          /\ sess[a].pc \in {"logout", "returned", "raised"}
          /\ \A u \in FromBatch(a, k) :
                /\ u \notin hist[a].passed \cup hist[a].gateHit
                /\ \A op \in ProcessingOps \cup {"fetch"} : ~Did(a, u, op)
          /\ \A u \in UIDs(a) :
                Did(a, u, "record") => message_id(a, u) \in processed_ids

\* C4 witness: the fetch of batch 2 raised after a message of batch 1 had
\* been recorded, and the session has ended.
C4_Witness ==
    \E a \in Accounts :
        /\ hist[a].abortedAt = 2
        /\ \E u \in UIDs(a) : Did(a, u, "record")
        /\ sess[a].pc \in Finished

\* C5: a message all of whose uploads failed is not put into the processed
\* (Succeeded) set by its processing.
C5_FailedUploadNotSucceeded ==
    \A a \in Accounts : \A u \in UIDs(a) :
        (Did(a, u, "upload_fail") /\ ~Did(a, u, "upload_ok"))
            => ~Did(a, u, "record")

C7_AtomicPersist ==
    mpc \in {"crashed", "load", "load_failed"} =>
        /\ load_state(state_file).ok
        /\ durable \subseteq load_state(state_file).ids

\* C8: two sessions of the same cycle never both pass the dedup gate and both
\* upload for messages with the same MessageID.
C8_GateIsMutuallyExclusive ==
    \A a, b \in Accounts : \A u \in hist[a].passed : \A v \in hist[b].passed :
        (a # b /\ message_id(a, u) = message_id(b, v)) =>
            ~(/\ \E op \in UploadOps : Did(a, u, op)
              /\ \E op \in UploadOps : Did(b, v, op))

\* C9: process_account always returns normally, it never ends by raising.
C9_NeverRaises == \A a \in Accounts : sess[a].pc # "raised"

(***************************************************************************)
(* The loop of one process that is not killed from outside: everything     *)
(* except Crash, Restart and a second interrupt during the shutdown.  The  *)
(* interrupt signal stays possible.                                        *)
(***************************************************************************)
MainStep == Load \/ Submit \/ Join \/ SaveOpen \/ SaveWrite \/ Sleep

NextLoop ==
    \/ Load \/ Submit \/ Join \/ SaveOpen \/ SaveWrite \/ Sleep
    \/ Interrupt
    \/ \E a \in Accounts : process_account(a)

\* the scheduling the code relies on: the main thread and each worker
\* thread of the pool keep running, and every blocking call returns or raises
LoopSpec ==
    /\ Init
    /\ [][NextLoop]_vars
    /\ WF_vars(MainStep)
    /\ \A a \in Accounts : WF_vars(process_account(a))

\* the two ways the modelled loop comes to rest: it was interrupted and has
\* exited, or it sleeps after the last cycle explored
LoopEnded ==
    \/ mpc = "exited"
    \/ mpc = "sleep" /\ cycle = MaxCycles

C11_CyclesSequential ==
    /\ [](\A a \in Accounts :
            sess[a].pc \in Active \cup {"queued"} => (mpc = "wait" \/ interrupted))
    /\ [][(mpc = "submit" /\ mpc' = "wait") =>
            /\ \A a \in Accounts : sess[a].pc \in Finished \cup {"idle"}
            /\ (\E a \in Accounts : sess[a].pc \in Finished) =>
                   (state_file = FileOk(processed_ids) /\ durable = processed_ids)]_vars

\* C11 witness: a session of the second cycle of one process is running, and
\* the state file holds an id that a session of the first cycle recorded.
C11_Witness ==
    /\ cycle = 2
    /\ restarts = 0
    /\ \E a \in Accounts : sess[a].pc \in Active
    /\ durable \ OldIds # {}
    /\ state_file = FileOk(durable)

\* C12: once the interrupt has been raised in main_loop, no session fetches
\* a further batch: a session that is between batches (or still queued) at
\* that moment issues no batch fetch any more.
C12_NoNewBatchAfterInterrupt ==
    [][interrupted =>
         \A a \in Accounts :
            {o \in hist'[a].ops : o[2] = "fetch"} \subseteq hist[a].ops]_vars

\* C14: no temp file outlives the code that handles it: whatever the outcome
\* of writing the file, of the browser download, of the extraction and of
\* the upload, a temp file created for a PDF part or for a fetched link is
\* no longer on disk when the session goes on.
C14_TempFilesDeleted == \A a \in Accounts : hist[a].temp = {}

\* C17 as stated: a session that has opened an IMAP connection and has ended
\* has called logout exactly once.
C17_LogoutOnceAfterConnect ==
    \A a \in Accounts :
        (sess[a].pc \in Finished /\ hist[a].connected) => hist[a].logouts = 1

\* C17, amended: a session that has logged in calls logout exactly once on
\* every way out (no messages, failed search, connection abort in a batch,
\* exception, normal end), not before its end and never twice; a session
\* whose login failed ends without calling logout; and a session ends by
\* raising only with an exception pending from its body, never because
\* logout failed.
C17_LogoutOnceAfterLogin ==
    \A a \in Accounts :
        /\ hist[a].logouts <= 1
        /\ sess[a].pc \in Active => hist[a].logouts = 0
        /\ sess[a].pc \in Finished =>
              hist[a].logouts = (IF hist[a].logged_in THEN 1 ELSE 0)
        /\ sess[a].pc = "raised" => sess[a].exc

\* C17 witness: a session whose batch fetch raised a connection error has
\* ended, after one logout, by returning.
C17_Witness ==
    \E a \in Accounts :
        /\ sess[a].pc = "returned"
        /\ hist[a].abortedAt > 0
        /\ hist[a].logouts = 1

\* the session of a has ended without a failure that cuts the fetching
\* short: login and search succeeded, every batch fetch was answered with
\* data, and no connection error ended the batch loop
NoFetchFailure(a) ==
    /\ sess[a].pc = "returned"
    /\ hist[a].logged_in
    /\ sess[a].latest_uids # <<>>
    /\ hist[a].abortedAt = 0
    /\ hist[a].skipped = {}
    /\ \A o \in hist[a].ops : o[2] # "conn_error"

\* per account, the max_emails largest UIDs of the inbox (all of them if
\* there are fewer)
Largest ==
    [a \in Accounts |->
        {u \in UIDs(a) : Cardinality({v \in UIDs(a) : v > u}) < max_emails}]

\* per account, the number of batches these UIDs need
NumBatches ==
    [a \in Accounts |-> (Cardinality(Largest[a]) + BATCH_SIZE - 1) \div BATCH_SIZE]

Range(b) == {b[k] : k \in 1..Len(b)}

\* C18: in a session without failure the UIDs fetched are exactly the
\* max_emails largest of the inbox; the batches are numbered 1, 2, ...
\* without a gap, each holds exactly BATCH_SIZE UIDs except the last, which
\* holds the rest; the UIDs are strictly descending inside a batch and from
\* one batch to the next; and no UID is in two batches.
C18_BatchesCoverNewest ==
    \A a \in Accounts :
      NoFetchFailure(a) =>
        LET B == hist[a].batches
            n == Cardinality(Largest[a])
        IN /\ UNION {Range(e[2]) : e \in B} = Largest[a]
           /\ {e[1] : e \in B} = 1..NumBatches[a]
           /\ \A e \in B :
                 /\ Len(e[2]) = IF e[1] < NumBatches[a] THEN BATCH_SIZE
                                ELSE n - (NumBatches[a] - 1) * BATCH_SIZE
                 /\ Len(e[2]) \in 1..BATCH_SIZE
                 /\ \A k \in 1..(Len(e[2]) - 1) : e[2][k] > e[2][k + 1]
           /\ \A e, f \in B :
                 /\ e[1] < f[1] => e[2][Len(e[2])] > f[2][1]
                 /\ e # f => Range(e[2]) \cap Range(f[2]) = {}

\* C18 witness: the session of a1 has ended without failure after two
\* batches, a full one and a last one that is shorter.
C18_Witness ==
    /\ NoFetchFailure("a1")
    /\ \E e, f \in hist["a1"].batches :
         /\ e[1] = 1 /\ Len(e[2]) = BATCH_SIZE
         /\ f[1] = 2 /\ Len(f[2]) < BATCH_SIZE

PoolInit ==
    /\ mpc = "load"
    /\ processed_ids = {}
    /\ state_file = FileOk(OldIds)
    /\ cycle = 1
    /\ interrupted = FALSE
    /\ restarts = 0
    /\ sess = [a \in PoolAccounts |-> SessInit]
    /\ hist = [a \in PoolAccounts |-> HistInit]
    /\ acceptedPrev = {}
    /\ recordedPrev = {}
    /\ durable = OldIds
    /\ ex = ExIdle

PoolNext ==
    \/ Load \/ Submit \/ Join \/ SaveOpen \/ SaveWrite
    \/ \E a \in PoolAccounts :
          Start(a) \/ Login(a) \/ Select(a) \/ Search(a) \/ Logout(a)

PoolSpec == PoolInit /\ [][PoolNext]_vars

\* C20: at no moment do more sessions run than min(5, number of accounts);
\* no account's task is started twice in a cycle; and when the cycle's pool
\* has been left, the task of every configured account has been started
\* exactly once and has ended.
C20_BoundedPool ==
    /\ Cardinality({a \in accounts : sess[a].pc \in Active})
          <= Min(PoolLimit, Cardinality(accounts))
    /\ \A a \in accounts : hist[a].started <= 1
    /\ \A a \in accounts :
          sess[a].pc \in Active \cup Finished <=> hist[a].started = 1
    /\ mpc \in {"save_open", "save_write", "sleep", "exited"} =>
          \A a \in accounts : hist[a].started = 1 /\ sess[a].pc \in Finished

\* C20 witness: five of the six sessions are running and the sixth is
\* waiting in the pool's queue.
C20_Witness ==
    /\ Cardinality(accounts) = 6
    /\ Cardinality({a \in accounts : sess[a].pc \in Active}) = PoolLimit
    /\ \E a \in accounts : sess[a].pc = "queued"

(***************************************************************************)
(* name_extractor.clean_name on its own.  A string is a sequence of words  *)
(* (the parts between white space), a word a sequence of atoms written     *)
(* one after the other; <<>> is the empty string.  The atoms are an        *)
(* honorific before and after "Dr" in the list of prefixes, one with a     *)
(* period, a name, a stop word, a number, an age/gender pattern and a junk *)
(* keyword.                                                                *)
(***************************************************************************)
MaxLen == 3                 \* words in the argument of clean_name

Atoms == {"Mr", "Dr", "Dr.", "Smith", "Age", "45", "45YM", "Report"}

\* the strings of at most n words of one atom each
Texts(n) == UNION {[1..k -> {<<a>> : a \in Atoms}] : k \in 0..n}

\* the prefixes of the list that are atoms here, in the order of the list
prefixes == <<"Mr", "Dr">>

\* junk_keywords that are atoms here
junk_keywords == {"Report"}

\* normalize_text: what is neither word character nor white space goes
normalize_atom(a) == IF a = "Dr." THEN "Dr" ELSE a

normalize_text(ws) ==
    [k \in 1..Len(ws) |-> [n \in 1..Len(ws[k]) |-> normalize_atom(ws[k][n])]]

\* re.sub(r"\(?\s*\d{1,3}\s*[Yy]\s*/?\s*[MF]\s*\)?", "", raw): the pattern takes
\* the white space on both sides with it, so the word before and the word
\* after it become one word
RECURSIVE AgeGenderFrom(_, _, _, _)
AgeGenderFrom(ws, k, out, glue) ==
    IF k > Len(ws) THEN out
    ELSE IF ws[k] = <<"45YM">>
         THEN AgeGenderFrom(ws, k + 1, out, out # <<>>)
         ELSE IF glue
              THEN AgeGenderFrom(ws, k + 1,
                                 [out EXCEPT ![Len(out)] = @ \o ws[k]], FALSE)
              ELSE AgeGenderFrom(ws, k + 1, Append(out, ws[k]), FALSE)

remove_age_gender(ws) == AgeGenderFrom(ws, 1, <<>>, FALSE)

\* re.split(r"\b(DOB|Age|...)\b", raw, flags=re.IGNORECASE)[0].strip()
split_stop_words(ws) ==
    LET hits == {k \in 1..Len(ws) : ws[k] = <<"Age">>} IN
      IF hits = {} THEN ws
      ELSE SubSeq(ws, 1, (CHOOSE k \in hits : \A m \in hits : k <= m) - 1)

\* re.sub(rf"^\s*{re.escape(p)}\.?\s+", "", raw): the prefix must be the
\* whole first word and white space must follow it
strip_prefix(ws, p) == IF Len(ws) >= 2 /\ ws[1] = <<p>> THEN Tail(ws) ELSE ws

\* for p in prefixes: raw = re.sub(...), each prefix once, in list order
RECURSIVE strip_prefixes(_, _)
strip_prefixes(ws, k) ==
    IF k > Len(prefixes) THEN ws
    ELSE strip_prefixes(strip_prefix(ws, prefixes[k]), k + 1)

\* \b\d{1,4}\b: a word of digits only, four digits at most
IsCode(w) == (\A n \in 1..Len(w) : w[n] = "45") /\ 2 * Len(w) <= 4

IsNotCode(w) == ~IsCode(w)

\* the re.sub of the codes and re.sub(r"\s+", " ", raw).strip()
remove_codes(ws) == SelectSeq(ws, IsNotCode)

\* re.fullmatch(r"[A-Z0-9]{8,}", raw)
IsIdCode(ws) ==
    Len(ws) = 1 /\ (\A n \in 1..Len(ws[1]) : ws[1][n] = "45") /\ 2 * Len(ws[1]) >= 8

\* raw.lower() in junk_keywords or len(raw.split()) > 6
IsJunk(ws) ==
    \/ Len(ws) = 1 /\ Len(ws[1]) = 1 /\ ws[1][1] \in junk_keywords
    \/ Len(ws) > 6

\* the steps of clean_name in their order.  The second age/gender pattern
\* (an M or F followed by digits) and the patterns "No 12", "C12", "T12" and
\* "VID 12" of the code removal occur in no string made of these atoms.
clean_name(raw) ==
    IF raw = <<>> THEN <<>>
    ELSE LET r1 == remove_age_gender(normalize_text(raw))
             r2 == split_stop_words(r1)
             r3 == strip_prefixes(r2, 1)
             r4 == remove_codes(r3)
         IN IF IsIdCode(r4) \/ IsJunk(r4) THEN <<>> ELSE r4

CleanInit ==
    /\ mpc = "load"
    /\ processed_ids = {}
    /\ state_file = FileOk(OldIds)
    /\ cycle = 1
    /\ interrupted = FALSE
    /\ restarts = 0
    /\ sess = [a \in Accounts |-> SessInit]
    /\ hist = [a \in Accounts |-> HistInit]
    /\ acceptedPrev = {}
    /\ recordedPrev = {}
    /\ durable = OldIds
    /\ ex \in {[pc |-> "clean", x |-> t, once |-> <<>>, twice |-> <<>>] :
                t \in Texts(MaxLen)}

\* clean_name(x)
CleanOnce ==
    /\ ex.pc = "clean"
    /\ ex' = [ex EXCEPT !.pc = "cleaned", !.once = clean_name(ex.x)]
    /\ UNCHANGED fetcherVars

\* clean_name(clean_name(x))
CleanTwice ==
    /\ ex.pc = "cleaned"
    /\ ex' = [ex EXCEPT !.pc = "recleaned", !.twice = clean_name(ex.once)]
    /\ UNCHANGED fetcherVars

CleanNext == CleanOnce \/ CleanTwice

CleanSpec == CleanInit /\ [][CleanNext]_vars

\* C15: clean_name is idempotent: cleaning a cleaned string changes nothing.
C15_CleanIdempotent == ex.pc = "recleaned" => ex.twice = ex.once

(***************************************************************************)
(* name_extractor.extract_patient_name on its own.  A file name is the     *)
(* sequence of the parts that "_" separates in its stem (the extension is  *)
(* ".pdf"); a name is a sequence of words, <<>> the empty string.  Of the  *)
(* PDF the model keeps what the stages get from it: whether               *)
(* pdfplumber.open raises, and what extract_from_text and the scan of the  *)
(* tables find, or that they raise.                                        *)
(***************************************************************************)
MaxParts == 3               \* parts of the file name stem

Parts == {"123", "asha", "RAO", "x", "wl", "WL", "report"}

Filenames(n) == UNION {[1..k -> Parts] : k \in 1..n}

\* str.lower, str.upper, str.capitalize and str.isdigit on the parts
lower(p) == CASE p = "RAO" -> "rao" [] p = "WL" -> "wl" [] OTHER -> p

upper(p) ==
    CASE p = "asha" -> "ASHA" [] p = "x" -> "X" [] p = "wl" -> "WL"
      [] p = "report" -> "REPORT" [] OTHER -> p

capitalize(p) ==
    CASE p = "asha" -> "Asha" [] p = "RAO" -> "Rao" [] p = "x" -> "X"
      [] p \in {"wl", "WL"} -> "Wl" [] p = "report" -> "Report" [] OTHER -> p

isdigit(p) == p = "123"

IsNotDigit(p) == ~isdigit(p)

\* len(cleaned) > 1, cleaned being the letters of the part
IsNameToken(p) == p \notin {"x", "123"}

\* re.match(r"^\d+_.*_wl$", stem) on the lower-cased stem: digits, "_",
\* anything, "_wl"; the two underscores are different ones
LabBypass(fname) ==
    /\ Len(fname) >= 3
    /\ isdigit(lower(fname[1]))
    /\ lower(fname[Len(fname)]) = "wl"

extract_from_filename(fname) ==
    LET parts == SelectSeq(fname, IsNotDigit)
        kept == IF parts # <<>> /\ upper(parts[Len(parts)]) \in {"WL", "REPORT", "RESULT"}
                THEN SubSeq(parts, 1, Len(parts) - 1)
                ELSE parts
        name_tokens == SelectSeq(kept, IsNameToken)
    IN [k \in 1..Len(name_tokens) |-> capitalize(name_tokens[k])]

\* the PDF bodies: unreadable, or readable with the outcome of the text
\* stage and of the table stage (a name, nothing, or an exception)
StageResults == {<<"raise">>, <<>>, <<"Meera">>}

PdfBodies ==
    {[open |-> "raise", text |-> <<>>, tables |-> <<>>]} \cup
    {[open |-> "ok", text |-> t, tables |-> b] : t, b \in StageResults}

Raised(n) == [raised |-> TRUE, name |-> <<>>, source |-> "", opened |-> n]

Returned(name, source, n) ==
    [raised |-> FALSE, name |-> name, source |-> source, opened |-> n]

\* variant: without the rule for the lab's file names
extract_patient_name_NoBypass(pdf, fname) ==
    IF pdf.open = "raise" \/ pdf.text = <<"raise">> THEN Raised(1)
    ELSE IF pdf.text # <<>> THEN Returned(pdf.text, "text", 1)
    ELSE IF pdf.tables = <<"raise">> THEN Raised(2)
    ELSE IF pdf.tables # <<>> THEN Returned(pdf.tables, "tables", 2)
    ELSE Returned(extract_from_filename(fname), "filename", 2)

\* extract_patient_name(pdf_path, original_filename): no statement of it is
\* inside a try; opened counts the calls of pdfplumber.open
extract_patient_name(pdf, fname) ==
    IF LabBypass(fname) THEN Returned(extract_from_filename(fname), "filename", 0)
    ELSE IF pdf.open = "raise" \/ pdf.text = <<"raise">> THEN Raised(1)
    ELSE IF pdf.text # <<>> THEN Returned(pdf.text, "text", 1)
    ELSE IF pdf.tables = <<"raise">> THEN Raised(2)
    ELSE IF pdf.tables # <<>> THEN Returned(pdf.tables, "tables", 2)
    ELSE Returned(extract_from_filename(fname), "filename", 2)

\* two PDFs that arrive under the same file name
ExtractInit ==
    /\ mpc = "load"
    /\ processed_ids = {}
    /\ state_file = FileOk(OldIds)
    /\ cycle = 1
    /\ interrupted = FALSE
    /\ restarts = 0
    /\ sess = [a \in Accounts |-> SessInit]
    /\ hist = [a \in Accounts |-> HistInit]
    /\ acceptedPrev = {}
    /\ recordedPrev = {}
    /\ durable = OldIds
    /\ ex \in {[pc |-> "extract", fname |-> f, pdf1 |-> p, pdf2 |-> q,
                 r1 |-> Raised(0), r2 |-> Raised(0)] :
                f \in Filenames(MaxParts), p \in PdfBodies, q \in PdfBodies}

ExtractFirst ==
    /\ ex.pc = "extract"
    /\ ex' = [ex EXCEPT !.pc = "first",
                        !.r1 = extract_patient_name(ex.pdf1, ex.fname)]
    /\ UNCHANGED fetcherVars

ExtractSecond ==
    /\ ex.pc = "first"
    /\ ex' = [ex EXCEPT !.pc = "both",
                        !.r2 = extract_patient_name(ex.pdf2, ex.fname)]
    /\ UNCHANGED fetcherVars

ExtractNext == ExtractFirst \/ ExtractSecond

ExtractSpec == ExtractInit /\ [][ExtractNext]_vars

\* no stage gets a name out of the PDF: it cannot be opened, or the text
\* stage and the table stage each fail or find nothing
NoStageFinds(pdf) ==
    \/ pdf.open = "raise"
    \/ pdf.text \in {<<>>, <<"raise">>} /\ pdf.tables \in {<<>>, <<"raise">>}

\* C13: extract_patient_name never raises, whatever stage fails, and when
\* no stage finds a name the result is the empty name with source filename.
C13_ExtractNeverRaises ==
    ex.pc = "both" =>
        /\ ~ex.r1.raised
        /\ NoStageFinds(ex.pdf1) =>
              /\ ex.r1.source = "filename"
              /\ ex.r1.name = extract_from_filename(ex.fname)

\* C16: for a file name that matches the lab's pattern, the extraction
\* does not open the PDF and its result does not depend on it: the two
\* PDFs, readable or not, give the same name with source filename.
C16_BypassIgnoresBody ==
    (ex.pc = "both" /\ LabBypass(ex.fname)) =>
        /\ ex.r1 = ex.r2
        /\ ~ex.r1.raised
        /\ ex.r1.source = "filename"
        /\ ex.r1.opened = 0

\* C16 witness: the file name matches the pattern and yields a name, the
\* first PDF is unreadable, the text of the second one holds a name.
C16_Witness ==
    /\ ex.pc = "both"
    /\ LabBypass(ex.fname)
    /\ ex.pdf1.open = "raise"
    /\ ex.pdf2.open = "ok" /\ ex.pdf2.text = <<"Meera">>
    /\ ex.r1.name # <<>>
    /\ ex.r2.name = ex.r1.name

(***************************************************************************)
(* save_state and the sessions                                             *)
(***************************************************************************)
\* C21: the dedup state is never persisted while an Account Session is
\* running.  Whenever main_loop is inside save_state, at the end of a cycle
\* or on the interrupt path, every session of the current cycle has ended
\* (none is queued or running), so that no session can change
\* processed_ids between the opening of the file and the end of the write.
C21_SaveOnlyAfterSessions ==
    \A a \in Accounts :
        mpc \in {"save_open", "save_write"} => sess[a].pc \in Finished

(***************************************************************************)
(* Order of upload, Seen flag and recording                                *)
(***************************************************************************)
\* some store call of the session has raised a connection error
StoreConnError(h) == \E o \in h.ops : o[2] = "conn_error"

\* C22: a session records the id of a message only after the store call
\* that sets the Seen flag of that message has returned without raising,
\* and it issues that store call after every upload call for the message.
\* A message recorded by a session is one whose store call returned; a
\* store call that raises a connection error leaves the message unrecorded
\* by that session and ends the session: it goes to the logout without
\* recording, uploading, testing or fetching anything more.
C22_RecordAfterStoreAfterUpload ==
    /\ [](\A a \in Accounts : \A o \in hist[a].ops :
            /\ o[2] = "record" =>
                   (<<o[1], "store">> \in hist[a].ops
                    /\ message_id(a, o[1]) \in processed_ids)
            /\ o[2] = "conn_error" =>
                   (<<o[1], "record">> \notin hist[a].ops
                    /\ <<o[1], "store">> \notin hist[a].ops
                    /\ sess[a].pc \in {"logout"} \cup Finished))
    /\ [][\A a \in Accounts :
            /\ \A o \in hist'[a].ops \ hist[a].ops :
                 /\ o[2] \in UploadOps =>
                        (<<o[1], "store">> \notin hist[a].ops
                         /\ <<o[1], "store_error">> \notin hist[a].ops)
                 /\ o[2] = "record" => <<o[1], "store">> \in hist[a].ops
            /\ StoreConnError(hist[a]) =>
                 /\ hist'[a].ops \subseteq hist[a].ops
                 /\ hist'[a].passed \subseteq hist[a].passed
                 /\ hist'[a].gateHit \subseteq hist[a].gateHit
                 /\ hist'[a].batches \subseteq hist[a].batches]_vars

\* C22 witness: the session of a2 has uploaded the report of its message,
\* set the Seen flag and recorded the id; the session of a1 has uploaded
\* the reports of UID 4, its store call has raised a connection error, and
\* it has returned without recording UID 4 and without looking at UID 3.
C22_Witness ==
    /\ Did("a2", 1, "upload_ok") /\ Did("a2", 1, "store") /\ Did("a2", 1, "record")
    /\ Did("a1", 4, "upload_ok") /\ Did("a1", 4, "conn_error")
    /\ ~Did("a1", 4, "record")
    /\ 3 \notin hist["a1"].gateHit \cup hist["a1"].passed
    /\ sess["a1"].pc = "returned"
====
